---- MODULE Spec2Model ----
(***************************************************************************)
(* storyblok-rich-text-react-renderer: render(document, options).          *)
(*                                                                         *)
(* The renderer is a recursive function of (document, options) with one    *)
(* per-call counter (currentKey).  The model evaluates the JavaScript of   *)
(* src/src/index.js (lines 1-207) on JavaScript values: every value is a   *)
(* record tagged by "kind"; an object is an ordered list of <<name,value>> *)
(* pairs; a property read falls through to Object.prototype as it does in  *)
(* JavaScript.  Each evaluation returns the value (or the error thrown),   *)
(* the counter and the trace of resolver calls made so far.  A session is  *)
(* a sequence of calls in one module instance: the tables the module holds *)
(* (defaultNodeResolvers, defaultMarkResolvers) outlive a call.            *)
(***************************************************************************)
EXTENDS Integers, Sequences, FiniteSets, TLC

VARIABLES
    pc,             \* "called": render is about to run; "done": it has ended
    document,       \* the first argument of the call
    options,        \* the second argument of the call (Undefined: not given)
    result,         \* what the call returned, or the error it threw
    currentKey,     \* the key counter of the latest call (line 52)
    nodeResolvers,  \* the effective node registry of the latest call (42-45)
    markResolvers,  \* the effective mark registry of the latest call (47-50)
    builtIns,       \* the module's tables (lines 180-207)
    trace,          \* ghost: the resolver calls, key stamps and node returns
    history         \* ghost: the earlier calls of the session

vars == <<pc, document, options, result, currentKey, nodeResolvers,
          markResolvers, builtIns, trace, history>>

(***************************************************************************)
(* Bounds of the input universe.                                           *)
(***************************************************************************)
MaxNodes == 3
MaxMarks == 3
MaxBody == 2
MaxCalls == 3

(***************************************************************************)
(* JavaScript values.                                                      *)
(***************************************************************************)
Null == [kind |-> "null"]

Undefined == [kind |-> "undefined"]

Str(s) == [kind |-> "string", s |-> s]

Num(n) == [kind |-> "number", n |-> n]

Arr(items) == [kind |-> "array", items |-> items]

Obj(fields) == [kind |-> "object", fields |-> fields]

\* A function value: fn names the code, bound is the closed-over argument.
Fn(name, bound) == [kind |-> "function", fn |-> name, bound |-> bound]

TypeError == [kind |-> "error", name |-> "TypeError"]

\* The outcome of evaluating an expression: a value or a thrown error,
\* with the key counter and the trace after it.
Ret(v, st) == [thrown |-> FALSE, val |-> v, st |-> st]

Throw(e, st) == [thrown |-> TRUE, val |-> e, st |-> st]

IsNullish(v) == v.kind \in {"null", "undefined"}

\* ToBoolean
Truthy(v) ==
    CASE v.kind \in {"null", "undefined"} -> FALSE
      [] v.kind = "string" -> v.s # ""
      [] v.kind = "number" -> v.n # 0
      [] OTHER -> TRUE

\* typeof
TypeOf(v) ==
    CASE v.kind = "undefined" -> "undefined"
      [] v.kind = "string" -> "string"
      [] v.kind = "number" -> "number"
      [] v.kind = "function" -> "function"
      [] OTHER -> "object"

\* String(v) as a template literal applies it
ToStr(v) ==
    CASE v.kind = "string" -> v.s
      [] v.kind = "number" -> ToString(v.n)
      [] v.kind = "undefined" -> "undefined"
      [] v.kind = "null" -> "null"
      [] v.kind = "array" -> ""
      [] OTHER -> "[object Object]"

\* Members every plain object inherits from Object.prototype (the ones the
\* inputs below can name).
ObjectPrototype ==
    << <<"toString", Fn("Object.prototype.toString", "")>>,
       <<"valueOf", Fn("Object.prototype.valueOf", "")>>,
       <<"__proto__", Obj(<<>>)>> >>

HasField(fields, k) == \E i \in 1..Len(fields) : fields[i][1] = k

FieldOf(fields, k) ==
    fields[CHOOSE i \in 1..Len(fields) : fields[i][1] = k][2]

HasOwn(o, k) == o.kind = "object" /\ HasField(o.fields, k)

\* o[k] for an object o: own property, else the inherited one, else undefined.
Get(o, k) ==
    IF o.kind = "object" /\ HasField(o.fields, k) THEN FieldOf(o.fields, k)
    ELSE IF o.kind \in {"object", "array", "element"} /\ HasField(ObjectPrototype, k)
    THEN FieldOf(ObjectPrototype, k)
    ELSE Undefined

\* { ...a, ...b }: the own properties of a, then those of b; a later value
\* replaces an earlier one in place.
RECURSIVE SpreadInto(_, _)
SpreadInto(acc, fields) ==
    IF fields = <<>> THEN acc
    ELSE LET f == Head(fields)
             next == IF HasField(acc, f[1])
                     THEN [i \in 1..Len(acc) |->
                             IF acc[i][1] = f[1] THEN f ELSE acc[i]]
                     ELSE Append(acc, f)
         IN SpreadInto(next, Tail(fields))

OwnFields(v) == IF v.kind = "object" THEN v.fields ELSE <<>>

Spread(a, b) == Obj(SpreadInto(SpreadInto(<<>>, OwnFields(a)), OwnFields(b)))

\* const { component, ...props } = record
RestWithout(o, k) ==
    Obj(SelectSeq(o.fields, LAMBDA f : f[1] # k))

(***************************************************************************)
(* React.                                                                  *)
(***************************************************************************)
\* React.createElement(type, config, children): key from config.key,
\* props = config without key/ref, plus children when the argument is given.
CreateElement(type, config, children) ==
    LET own == SelectSeq(OwnFields(config),
                         LAMBDA f : /\ f[1] \notin {"key", "ref"}
                                    /\ (f[1] # "children" \/ children = <<>>))
        key == IF HasOwn(config, "key") /\ Get(config, "key").kind # "undefined"
               THEN Str(ToStr(Get(config, "key"))) ELSE Null
    IN [kind |-> "element", type |-> type, key |-> key,
        props |-> own \o children]

\* the children argument given: props.children = children
Children(c) == << <<"children", c>> >>

\* the children argument not given
NoChildren == <<>>

IsValidElement(v) == v.kind = "element"

\* Faulty variant: key: ++currentKey, the keys count from 1
CloneElementPreIncrement(element, key) ==
    [element EXCEPT !.key = Str(ToString(key + 1))]

\* React.cloneElement(element, { key })
CloneElement(element, key) == [element EXCEPT !.key = Str(ToString(key))]

(***************************************************************************)
(* The resolvers of src/src/index.js, and the functions a caller supplies. *)
(***************************************************************************)
Arg(args, i) == IF i <= Len(args) THEN args[i] ELSE Undefined

\* Faulty variant: the container is built whatever its children are
simpleNodeResolverNoCheck(element, children) ==
    CreateElement(element, Null, Children(children))

simpleNodeResolver(element, children) ==
    IF ~IsNullish(children)
    THEN CreateElement(element, Null, Children(children))
    ELSE Null

emptyNodeResolver(element) == CreateElement(element, Undefined, NoChildren)

\* `h${props.level}`: reading props.level throws when props is undefined
headingNodeResolver(children, props, st) ==
    IF IsNullish(props) THEN Throw(TypeError, st)
    ELSE Ret(CreateElement("h" \o ToStr(Get(props, "level")), Null,
                           Children(children)), st)

imageNodeResolver(children, props) ==
    CreateElement("img", props, Children(children))

codeblockNodeResolver(children, props, st) ==
    IF IsNullish(props) THEN Throw(TypeError, st)
    ELSE LET codeProps == Obj(<< <<"className", Get(props, "class")>> >>)
             code == CreateElement("code", codeProps, Children(children))
         IN Ret(CreateElement("pre", Null, Children(code)), st)

emojiNodeResolver(attrs) ==
    IF ~Truthy(attrs) THEN Null
    ELSE LET props == Obj(<< <<"data-type", Str("emoji")>>,
                             <<"data-name", Get(attrs, "name")>>,
                             <<"emoji", Get(attrs, "emoji")>> >>)
         IN IF Truthy(Get(attrs, "emoji")) \/ ~Truthy(Get(attrs, "fallbackImage"))
            THEN CreateElement("span", props, Children(Get(attrs, "emoji")))
            ELSE LET fallbackProps ==
                         Obj(<< <<"src", Get(attrs, "fallbackImage")>>,
                                <<"draggable", Str("false")>>,
                                <<"loading", Str("lazy")>>,
                                <<"align", Str("absmiddle")>>,
                                <<"alt", Get(attrs, "name")>> >>)
                     fallback == CreateElement("img", fallbackProps, NoChildren)
                 IN CreateElement("span", props, Children(fallback))

simpleMarkResolver(element, children) ==
    CreateElement(element, Null, Children(children))

\* Faulty variant: href is attrs.href whatever the linktype
linkMarkResolverPlainHref(children, attrs) ==
    LET props == IF Truthy(attrs)
                 THEN Obj(<< <<"href", Get(attrs, "href")>>,
                             <<"target", Get(attrs, "target")>> >>)
                 ELSE Obj(<<>>)
    IN CreateElement("a", props, Children(children))

linkMarkResolver(children, attrs) ==
    LET props == IF Truthy(attrs)
                 THEN Obj(<< <<"href",
                                IF Get(attrs, "linktype") = Str("email")
                                THEN Str("mailto:" \o ToStr(Get(attrs, "href")))
                                ELSE Get(attrs, "href")>>,
                             <<"target", Get(attrs, "target")>> >>)
                 ELSE Obj(<<>>)
    IN CreateElement("a", props, Children(children))

styledMarkResolver(children, attrs) ==
    LET props == IF Truthy(attrs)
                 THEN Obj(<< <<"className", Get(attrs, "class")>> >>)
                 ELSE Obj(<<>>)
    IN CreateElement("span", props, Children(children))

highlightMarkResolver(children, attrs) ==
    LET props == IF Truthy(attrs)
                 THEN Obj(<< <<"style",
                                Obj(<< <<"backgroundColor", Get(attrs, "color")>> >>)>> >>)
                 ELSE Obj(<<>>)
    IN CreateElement("span", props, Children(children))

textStyleMarkResolver(children, attrs) ==
    LET props == IF Truthy(attrs)
                 THEN Obj(<< <<"style",
                                Obj(<< <<"color", Get(attrs, "color")>> >>)>> >>)
                 ELSE Obj(<<>>)
    IN CreateElement("span", props, Children(children))

anchorMarkResolver(children, attrs) ==
    LET props == IF Truthy(attrs)
                 THEN Obj(<< <<"id", Get(attrs, "id")>> >>)
                 ELSE Obj(<<>>)
    IN CreateElement("span", props, Children(children))

defaultNodeResolvers ==
    Obj(<< <<"heading", Fn("headingNodeResolver", "")>>,
           <<"code_block", Fn("codeblockNodeResolver", "")>>,
           <<"image", Fn("imageNodeResolver", "")>>,
           <<"paragraph", Fn("simpleNodeResolver", "p")>>,
           <<"blockquote", Fn("simpleNodeResolver", "blockquote")>>,
           <<"ordered_list", Fn("simpleNodeResolver", "ol")>>,
           <<"bullet_list", Fn("simpleNodeResolver", "ul")>>,
           <<"list_item", Fn("simpleNodeResolver", "li")>>,
           <<"horizontal_rule", Fn("emptyNodeResolver", "hr")>>,
           <<"hard_break", Fn("emptyNodeResolver", "br")>>,
           <<"emoji", Fn("emojiNodeResolver", "")>> >>)

defaultMarkResolvers ==
    Obj(<< <<"link", Fn("linkMarkResolver", "")>>,
           <<"styled", Fn("styledMarkResolver", "")>>,
           <<"bold", Fn("simpleMarkResolver", "b")>>,
           <<"italic", Fn("simpleMarkResolver", "i")>>,
           <<"strike", Fn("simpleMarkResolver", "s")>>,
           <<"underline", Fn("simpleMarkResolver", "u")>>,
           <<"code", Fn("simpleMarkResolver", "code")>>,
           <<"subscript", Fn("simpleMarkResolver", "sub")>>,
           <<"superscript", Fn("simpleMarkResolver", "sup")>>,
           <<"highlight", Fn("highlightMarkResolver", "")>>,
           <<"textStyle", Fn("textStyleMarkResolver", "")>>,
           <<"anchor", Fn("anchorMarkResolver", "")>> >>)

\* Functions a caller passes in options (README, "Advanced usage"):
\*   user:wrap       (children) => <bound>{children}</bound>
\*   user:component  (props) => <bound {...props} />
\*   user:null       () => null
\*   user:string     () => bound
\*   user:children   (children) => children
\*   user:name       (name, props) => <div>{name}</div>
\*   user:brackets   (str) => "[" + str + "]"
\*   user:render     (props) => <aside>{render(props.text)}</aside>
UserFunction(f, args) ==
    CASE f.fn = "user:wrap" ->
            CreateElement(f.bound, Null, Children(Arg(args, 1)))
      [] f.fn = "user:component" ->
            CreateElement(f.bound, Arg(args, 1), NoChildren)
      [] f.fn = "user:null" -> Null
      [] f.fn = "user:string" -> Str(f.bound)
      [] f.fn = "user:children" -> Arg(args, 1)
      [] f.fn = "user:name" ->
            CreateElement("div", Null, Children(Arg(args, 1)))
      [] f.fn = "user:brackets" -> Str("[" \o ToStr(Arg(args, 1)) \o "]")

RECURSIVE RenderCall(_, _)

\* Faulty variant: one counter for the module, so the invocation that called
\* render goes on from where the inner invocation left the counter
ResumeKeyShared(outerKey, innerKey) == innerKey

\* line 52: currentKey is a variable of the invocation; the counter of the
\* invocation that called render is where it was before the inner one ran
ResumeKey(outerKey, innerKey) == outerKey

\* Ghost: an inner call of render, recorded in the trace of the outer one
Resumed(st, doc, inner) ==
    [key |-> ResumeKey(st.key, inner.st.key),
     trace |-> Append(st.trace,
                      [ev |-> "render", document |-> doc, options |-> Undefined,
                       result |-> [thrown |-> inner.thrown, val |-> inner.val],
                       trace |-> inner.st.trace])]

\* (props) => <aside>{render(props.text)}</aside>, inner the outcome of the
\* inner call of render
RenderInside(st, doc, inner) ==
    IF inner.thrown THEN Throw(inner.val, Resumed(st, doc, inner))
    ELSE Ret(CreateElement("aside", Null, Children(inner.val)),
             Resumed(st, doc, inner))

\* f(...args), called as a plain function (this is undefined)
Apply(f, args, st) ==
    IF f.kind # "function" THEN Throw(TypeError, st)
    ELSE CASE f.fn = "user:render" ->
                 RenderInside(st, Get(Arg(args, 1), "text"),
                              RenderCall(Get(Arg(args, 1), "text"), Undefined))
           [] f.fn = "simpleNodeResolver" ->
                 Ret(simpleNodeResolver(f.bound, Arg(args, 1)), st)
           [] f.fn = "emptyNodeResolver" -> Ret(emptyNodeResolver(f.bound), st)
           [] f.fn = "headingNodeResolver" ->
                 headingNodeResolver(Arg(args, 1), Arg(args, 2), st)
           [] f.fn = "imageNodeResolver" ->
                 Ret(imageNodeResolver(Arg(args, 1), Arg(args, 2)), st)
           [] f.fn = "codeblockNodeResolver" ->
                 codeblockNodeResolver(Arg(args, 1), Arg(args, 2), st)
           [] f.fn = "emojiNodeResolver" -> Ret(emojiNodeResolver(Arg(args, 2)), st)
           [] f.fn = "simpleMarkResolver" ->
                 Ret(simpleMarkResolver(f.bound, Arg(args, 1)), st)
           [] f.fn = "linkMarkResolver" ->
                 Ret(linkMarkResolver(Arg(args, 1), Arg(args, 2)), st)
           [] f.fn = "styledMarkResolver" ->
                 Ret(styledMarkResolver(Arg(args, 1), Arg(args, 2)), st)
           [] f.fn = "highlightMarkResolver" ->
                 Ret(highlightMarkResolver(Arg(args, 1), Arg(args, 2)), st)
           [] f.fn = "textStyleMarkResolver" ->
                 Ret(textStyleMarkResolver(Arg(args, 1), Arg(args, 2)), st)
           [] f.fn = "anchorMarkResolver" ->
                 Ret(anchorMarkResolver(Arg(args, 1), Arg(args, 2)), st)
           [] f.fn = "() => null" -> Ret(Null, st)
           [] f.fn = "str => str" -> Ret(Arg(args, 1), st)
           [] f.fn = "Object.prototype.toString" -> Ret(Str("[object Undefined]"), st)
           [] f.fn = "Object.prototype.valueOf" -> Throw(TypeError, st)
           [] OTHER -> Ret(UserFunction(f, args), st)

(***************************************************************************)
(* render(document, options): src/src/index.js lines 28-107.               *)
(*                                                                         *)
(* st = [key, trace]: key is currentKey; trace lists, in the order they    *)
(* happen, the calls of resolvers ("call") and the returns of renderNode   *)
(* ("node").  path is the position of the node in the document: <<2, 1>>   *)
(* is the first child of the second top-level node.                        *)
(***************************************************************************)
\* Faulty variant: currentKey is a variable of the module, never set back
NewStateShared == [key |-> currentKey, trace |-> <<>>]

\* line 52: let currentKey = 0
NewState == [key |-> 0, trace |-> <<>>]

\* Faulty variant: the element is cloned with currentKey and the counter is left as
\* it is (key: currentKey instead of key: currentKey++)
AddKeyNoIncrement(element, st) ==
    IF IsValidElement(element)
    THEN Ret(CloneElement(element, st.key),
             [key |-> st.key,
              trace |-> Append(st.trace,
                               [ev |-> "key", out |-> CloneElement(element, st.key)])])
    ELSE Ret(element, st)

\* addKey: a valid element is cloned with the next key, anything else is
\* returned as it is
AddKey(element, st) ==
    IF IsValidElement(element)
    THEN Ret(CloneElement(element, st.key),
             [key |-> st.key + 1,
              trace |-> Append(st.trace,
                               [ev |-> "key", out |-> CloneElement(element, st.key)])])
    ELSE Ret(element, st)

\* Ghost: the trace with one more entry
Logged(r, entry) == [r EXCEPT !.st.trace = Append(@, entry)]

\* Ghost: the outcome r of a resolver call, recorded in the trace
Recorded(r, f, args, role, path, idx) ==
    Logged(r, [ev |-> "call", role |-> role, path |-> path, idx |-> idx,
               fn |-> f, args |-> args, thrown |-> r.thrown, out |-> r.val])

\* resolver(...args) at a call site of render
Call(f, args, role, path, idx, st) ==
    Recorded(Apply(f, args, st), f, args, role, path, idx)

\* addKey(r) for the outcome r of a call; an error passes through
AddKeyTo(r) == IF r.thrown THEN r ELSE AddKey(r.val, r.st)

\* addKey(resolver(...args))
CallAndKey(f, args, role, path, idx, st) ==
    AddKeyTo(Call(f, args, role, path, idx, st))

\* .filter(node => node != null)
FilterNotNull(items) == SelectSeq(items, LAMBDA v : ~IsNullish(v))

\* Faulty variant: the resolver gets the whole record, component included
BlokElementWholeRecord(record, j, path, env, st) ==
    LET component == Get(record, "component")
        resolver == Get(env.blokResolvers, ToStr(component))
    IN IF IsNullish(record) THEN Throw(TypeError, st)
       ELSE IF Truthy(resolver)
       THEN CallAndKey(resolver, <<record>>, "blok", path, j, st)
       ELSE CallAndKey(env.defaultBlokResolver, <<component, record>>,
                       "defaultBlok", path, j, st)

\* lines 71-77: the callback of body.map for one record of the body
BlokElement(record, j, path, env, st) ==
    LET component == Get(record, "component")
        props == RestWithout(record, "component")
        resolver == Get(env.blokResolvers, ToStr(component))
    IN IF IsNullish(record) THEN Throw(TypeError, st)
       ELSE IF Truthy(resolver)
       THEN CallAndKey(resolver, <<props>>, "blok", path, j, st)
       ELSE CallAndKey(env.defaultBlokResolver, <<component, props>>,
                       "defaultBlok", path, j, st)

RECURSIVE MapBody(_, _, _, _, _, _)

\* Faulty variant: body.map(...).filter(Boolean), a null output is dropped
MapBodyNextDropNull(body, j, acc, path, env, r) ==
    IF r.thrown THEN r
    ELSE MapBody(body, j + 1,
                 IF IsNullish(r.val) THEN acc ELSE Append(acc, r.val),
                 path, env, r.st)

\* body.map: the element r of record j is appended, then the next record
MapBodyNext(body, j, acc, path, env, r) ==
    IF r.thrown THEN r
    ELSE MapBody(body, j + 1, Append(acc, r.val), path, env, r.st)

\* body.map(({ component, ...props }) => ...)
MapBody(body, j, acc, path, env, st) ==
    IF j > Len(body) THEN Ret(Arr(acc), st)
    ELSE MapBodyNext(body, j, acc, path, env,
                     BlokElement(body[j], j, path, env, st))

\* lines 89-94: the callback of marks.reduceRight for one mark
MarkStep(children, mark, i, path, env, st) ==
    LET resolver == Get(env.markResolvers, ToStr(Get(mark, "type")))
    IN IF IsNullish(mark) THEN Throw(TypeError, st)
       ELSE IF Truthy(resolver)
       THEN CallAndKey(resolver, <<children, Get(mark, "attrs")>>,
                       "mark", path, i, st)
       ELSE Ret(children, st)

RECURSIVE ReduceLeftMarks(_, _, _, _, _)

\* Faulty variant: marks.reduce, from the first mark to the last
ReduceLeftMarks(marks, i, path, env, r) ==
    IF r.thrown \/ i < 1 THEN r
    ELSE ReduceLeftMarks(marks, i - 1, path, env,
                         MarkStep(r.val, marks[Len(marks) + 1 - i],
                                  Len(marks) + 1 - i, path, env, r.st))

RECURSIVE ReduceRightMarks(_, _, _, _, _)

\* marks.reduceRight(callback, childNode): from the last mark to the first;
\* r is the accumulator before mark i
ReduceRightMarks(marks, i, path, env, r) ==
    IF r.thrown \/ i < 1 THEN r
    ELSE ReduceRightMarks(marks, i - 1, path, env,
                          MarkStep(r.val, marks[i], i, path, env, r.st))

RECURSIVE RenderNodes(_, _, _, _)
RECURSIVE RenderNode(_, _, _, _)
RECURSIVE MapRenderNode(_, _, _, _, _, _)

\* renderNode, the blok branch (lines 69-77)
RenderBlok(node, path, env, st) ==
    LET attrs == Get(node, "attrs")
    IN IF IsNullish(attrs) THEN Throw(TypeError, st)
       ELSE IF Get(attrs, "body").kind # "array" THEN Throw(TypeError, st)
       ELSE MapBody(Get(attrs, "body").items, 1, <<>>, path, env, st)

\* Faulty variant: resolver(...) && addKey(resolver(...)), the resolver of a
\* node is called a second time
ResolveNodeTwice(resolver, node, path, c) ==
    IF c.thrown THEN c
    ELSE CallAndKey(resolver, <<c.val, Get(node, "attrs")>>, "node", path, 0,
                    Call(resolver, <<c.val, Get(node, "attrs")>>,
                         "node", path, 0, c.st).st)

\* line 85: addKey(resolver(children, node.attrs)), children rendered as c
ResolveNode(resolver, node, path, c) ==
    IF c.thrown THEN c
    ELSE CallAndKey(resolver, <<c.val, Get(node, "attrs")>>, "node", path, 0, c.st)

\* renderNode, the childNode of the else branch (lines 79-87)
RenderChildNode(node, path, env, st) ==
    LET resolver == Get(env.nodeResolvers, ToStr(Get(node, "type")))
    IN IF Get(node, "type") = Str("text")
       THEN Call(env.textResolver, <<Get(node, "text")>>, "text", path, 0, st)
       ELSE IF Truthy(resolver)
       THEN ResolveNode(resolver, node, path,
                        RenderNodes(Get(node, "content"), path, env, st))
       ELSE Ret(Null, st)

\* node.marks ?? []
MarksOf(node) ==
    IF IsNullish(Get(node, "marks")) THEN Arr(<<>>) ELSE Get(node, "marks")

\* Faulty variant: the marks are folded for text nodes only
RenderMarksTextOnly(node, path, env, c) ==
    IF c.thrown THEN c
    ELSE IF Get(node, "type") # Str("text") THEN c
    ELSE IF MarksOf(node).kind # "array" THEN Throw(TypeError, c.st)
    ELSE ReduceRightMarks(MarksOf(node).items, Len(MarksOf(node).items),
                          path, env, c)

\* renderNode, the marks of the else branch (lines 88-94), from childNode c
RenderMarks(node, path, env, c) ==
    IF c.thrown THEN c
    ELSE IF MarksOf(node).kind # "array" THEN Throw(TypeError, c.st)
    ELSE ReduceRightMarks(MarksOf(node).items, Len(MarksOf(node).items),
                          path, env, c)

\* Ghost: the return of renderNode, recorded in the trace
NodeReturned(r, path) ==
    IF r.thrown THEN r
    ELSE Logged(r, [ev |-> "node", path |-> path, out |-> r.val])

RenderNode(node, path, env, st) ==
    IF IsNullish(node) THEN Throw(TypeError, st)
    ELSE IF Get(node, "type") = Str("blok")
    THEN NodeReturned(RenderBlok(node, path, env, st), path)
    ELSE NodeReturned(RenderMarks(node, path, env,
                                  RenderChildNode(node, path, env, st)), path)

\* nodes.map: the output r of node i is appended, then the next node
MapRenderNodeNext(nodes, i, acc, path, env, r) ==
    IF r.thrown THEN r
    ELSE MapRenderNode(nodes, i + 1, Append(acc, r.val), path, env, r.st)

\* nodes.map(renderNode)
MapRenderNode(nodes, i, acc, path, env, st) ==
    IF i > Len(nodes) THEN Ret(Arr(acc), st)
    ELSE MapRenderNodeNext(nodes, i, acc, path, env,
                           RenderNode(nodes[i], Append(path, i), env, st))

RECURSIVE Flat(_)
\* Ghost of the variant below: items with nested arrays spliced in
Flat(items) ==
    IF items = <<>> THEN <<>>
    ELSE IF Head(items).kind = "array"
    THEN Flat(Head(items).items) \o Flat(Tail(items))
    ELSE <<Head(items)>> \o Flat(Tail(items))

\* Faulty variant: nodes.flatMap(renderNode), the outputs of a blok spliced into
\* the sequence of its parent
FilterElementsFlat(m) ==
    IF m.thrown THEN m
    ELSE IF Len(FilterNotNull(Flat(m.val.items))) = 0 THEN Ret(Null, m.st)
    ELSE Ret(Arr(FilterNotNull(Flat(m.val.items))), m.st)

\* Faulty variant: the filtered list is returned even when it is empty
FilterElementsKeepEmpty(m) ==
    IF m.thrown THEN m ELSE Ret(Arr(FilterNotNull(m.val.items)), m.st)

\* lines 61-65: the mapped outputs m filtered; an empty list becomes null
FilterElements(m) ==
    IF m.thrown THEN m
    ELSE IF Len(FilterNotNull(m.val.items)) = 0 THEN Ret(Null, m.st)
    ELSE Ret(Arr(FilterNotNull(m.val.items)), m.st)

RenderNodes(nodes, path, env, st) ==
    IF ~Truthy(nodes) THEN Ret(Null, st)
    ELSE IF nodes.kind # "array" THEN Throw(TypeError, st)
    ELSE FilterElements(MapRenderNode(nodes.items, 1, <<>>, path, env, st))

\* const { name = dflt } = options
Option(opts, name, dflt) ==
    IF Get(opts, name).kind = "undefined" THEN dflt ELSE Get(opts, name)

\* Faulty variant: { ...custom, ...defaults }, a built-in entry wins over an override
MergeDefaultsLast(defaults, custom) == Spread(custom, defaults)

\* the module's tables as the module defines them
ModuleTables ==
    [nodeResolvers |-> defaultNodeResolvers, markResolvers |-> defaultMarkResolvers]

\* Faulty variant: Object.assign(defaultNodeResolvers, customNodeResolvers),
\* the overrides are written into the module's tables
TablesAssigned(tables, registries) ==
    IF registries.nodeResolvers.kind = "object"
    THEN [nodeResolvers |-> registries.nodeResolvers,
          markResolvers |-> registries.markResolvers]
    ELSE tables

\* the module's tables after a call that built the given registries: the
\* spreads of lines 42-50 copy the tables and write to neither
TablesAfter(tables, registries) == tables

\* the effective registry: { ...defaults, ...custom }
MergeResolvers(defaults, custom) == Spread(defaults, custom)

\* lines 34-50: the options and the effective registries of one call
Env(opts) ==
    [blokResolvers |-> Option(opts, "blokResolvers", Obj(<<>>)),
     defaultBlokResolver |-> Option(opts, "defaultBlokResolver", Fn("() => null", "")),
     nodeResolvers |->
         MergeResolvers(builtIns.nodeResolvers, Option(opts, "nodeResolvers", Obj(<<>>))),
     markResolvers |->
         MergeResolvers(builtIns.markResolvers, Option(opts, "markResolvers", Obj(<<>>))),
     textResolver |-> Option(opts, "textResolver", Fn("str => str", ""))]

\* lines 29-33: the test that selects the document branch; reading
\* document.type throws when document is null
IsDocShape(doc) ==
    /\ TypeOf(doc) = "object"
    /\ Get(doc, "type") = Str("doc")
    /\ Get(doc, "content").kind = "array"

\* line 104: defaultStringResolver(t), t the outcome of textResolver
ResolveString(opts, t) ==
    IF t.thrown THEN t
    ELSE Call(Option(opts, "defaultStringResolver", Fn("str => str", "")),
              <<t.val>>, "string", <<>>, 0, t.st)

\* Faulty variant: defaultStringResolver(document), textResolver left out
RenderStringNoText(doc, opts, st) == ResolveString(opts, Ret(doc, st))

\* lines 99-104: the string branch
RenderString(doc, opts, st) ==
    ResolveString(opts, Call(Option(opts, "textResolver", Fn("str => str", "")),
                             <<doc>>, "text", <<>>, 0, st))

\* options = {}
OptionsOrDefault(optionsArg) ==
    IF optionsArg.kind = "undefined" THEN Obj(<<>>) ELSE optionsArg

\* the registries the call builds: only the document branch builds them
Registries(doc, optionsArg) ==
    IF doc.kind # "null" /\ IsDocShape(doc) /\ optionsArg.kind # "null"
    THEN Env(OptionsOrDefault(optionsArg))
    ELSE [nodeResolvers |-> Undefined, markResolvers |-> Undefined]

\* render(document, options = {}); destructuring a null options throws
RenderCall(doc, optionsArg) ==
    IF doc.kind = "null" THEN Throw(TypeError, NewState)
    ELSE IF IsDocShape(doc)
    THEN IF optionsArg.kind = "null" THEN Throw(TypeError, NewState)
         ELSE RenderNodes(Get(doc, "content"), <<>>,
                          Env(OptionsOrDefault(optionsArg)), NewState)
    ELSE IF TypeOf(doc) = "string"
    THEN IF optionsArg.kind = "null" THEN Throw(TypeError, NewState)
         ELSE RenderString(doc, OptionsOrDefault(optionsArg), NewState)
    ELSE Ret(Null, NewState)

(***************************************************************************)
(* The inputs: documents and options a caller can pass.                    *)
(***************************************************************************)
\* { type, attrs?, content?, marks? }: a field is left out when its
\* argument is <<>> (attrs, marks) or Undefined (content)
Node(type, attrs, content, marks) ==
    Obj(<< <<"type", Str(type)>> >>
        \o (IF attrs = <<>> THEN <<>> ELSE << <<"attrs", Obj(attrs)>> >>)
        \o (IF content.kind = "undefined" THEN <<>> ELSE << <<"content", content>> >>)
        \o (IF marks = <<>> THEN <<>> ELSE << <<"marks", Arr(marks)>> >>))

TextNode(text, marks) ==
    Obj(<< <<"type", Str("text")>>, <<"text", Str(text)>> >>
        \o (IF marks = <<>> THEN <<>> ELSE << <<"marks", Arr(marks)>> >>))

Mark(type, attrs) ==
    Obj(<< <<"type", Str(type)>> >>
        \o (IF attrs = <<>> THEN <<>> ELSE << <<"attrs", Obj(attrs)>> >>))

BlokNode(body, marks) ==
    Node("blok", << <<"body", Arr(body)>> >>, Undefined, marks)

Doc(content) == Obj(<< <<"type", Str("doc")>>, <<"content", Arr(content)>> >>)

\* node types that carry content in the tree documents: a simple container,
\* a heading, and a type the built-in table does not know
ContainerTypes == {"paragraph", "heading", "video"}

AttrsOf(type) ==
    CASE type = "heading" -> << <<"level", Num(2)>> >>
      [] type = "code_block" -> << <<"class", Str("language-js")>> >>
      [] OTHER -> <<>>

LeafNodes ==
    {TextNode("hi", <<>>),
     Node("horizontal_rule", <<>>, Undefined, <<>>),
     Node("paragraph", <<>>, Undefined, <<>>)}

RECURSIVE Trees(_)
RECURSIVE Forests(_)

\* the content sequences of exactly n nodes in all
Forests(n) ==
    IF n = 0 THEN {<<>>}
    ELSE UNION {{<<t>> \o f : t \in Trees(k), f \in Forests(n - k)} : k \in 1..n}

\* the nodes with exactly n nodes in all, themselves included
Trees(n) ==
    (IF n = 1 THEN LeafNodes ELSE {})
    \cup {Node(type, AttrsOf(type), Arr(f), <<>>) :
             type \in ContainerTypes, f \in Forests(n - 1)}

TreeDocs == {Doc(f) : f \in UNION {Forests(n) : n \in 0..MaxNodes}}

\* marks: resolved by the built-in table (bold, link), unknown to it
\* (fancy), and a name Object.prototype answers to (toString)
Marks ==
    {Mark("bold", <<>>),
     Mark("link", << <<"linktype", Str("email")>>, <<"href", Str("a@b.com")>> >>),
     Mark("fancy", <<>>),
     Mark("toString", <<>>)}

RECURSIVE SeqsUpTo(_, _)
SeqsUpTo(S, n) ==
    IF n = 0 THEN {<<>>}
    ELSE LET shorter == SeqsUpTo(S, n - 1)
         IN shorter \cup {Append(q, x) : q \in shorter, x \in S}

MarkedNodes ==
    {TextNode("hi", m) : m \in SeqsUpTo(Marks, MaxMarks)}
    \cup {Node(type, IF type = "image" THEN << <<"src", Str("a.png")>> >> ELSE <<>>,
               Undefined, m) :
             type \in {"image", "video", "paragraph"},
             m \in SeqsUpTo(Marks, MaxMarks)}

MarkDocs ==
    {Doc(<<n>>) : n \in MarkedNodes}
    \cup {Doc(<<Node("paragraph", <<>>, Arr(<<n>>), <<>>)>>) : n \in MarkedNodes}

\* a field of a record, left out when its value is undefined
Field(name, v) == IF v.kind = "undefined" THEN <<>> ELSE << <<name, v>> >>

\* the attrs a link mark can carry: none, null, a string, or a record with
\* any of linktype, href, target
LinkAttrs ==
    {Undefined, Null, Str("x")}
    \cup {Obj(Field("linktype", l) \o Field("href", h) \o Field("target", t)) :
            l \in {Undefined, Str("email"), Str("url"), Str("story")},
            h \in {Undefined, Str("a@b.com"), Str("/p")},
            t \in {Undefined, Str("_blank"), Null}}

LinkMark(attrs) == Obj(<< <<"type", Str("link")>> >> \o Field("attrs", attrs))

\* a text node with one link mark
LinkDocs == {Doc(<<TextNode("hi", <<LinkMark(a)>>)>>) : a \in LinkAttrs}

\* the component records of a blok body
ComponentX ==
    Obj(<< <<"component", Str("x")>>, <<"_uid", Str("u1")>>, <<"foo", Num(1)>> >>)

ComponentY ==
    Obj(<< <<"_uid", Str("u2")>>, <<"component", Str("y")>>, <<"foo", Num(2)>> >>)

ComponentToString ==
    Obj(<< <<"component", Str("toString")>>, <<"_uid", Str("u3")>> >>)

Components == {ComponentX, ComponentY, ComponentToString}

BlokNodes ==
    {BlokNode(b, m) : b \in SeqsUpTo(Components, MaxBody),
                      m \in {<<>>, <<Mark("bold", <<>>)>>}}
    \cup {Node("blok", <<>>, Undefined, <<>>)}

BlokDocs ==
    {Doc(<<n>>) : n \in BlokNodes}
    \cup {Doc(<<Node("horizontal_rule", <<>>, Undefined, <<>>), n,
                TextNode("hi", <<Mark("bold", <<>>)>>)>>) : n \in BlokNodes}
    \cup {Doc(<<Node("paragraph", <<>>,
                     Arr(<<n, TextNode("hi", <<Mark("bold", <<>>)>>)>>), <<>>)>>) :
             n \in BlokNodes}

\* every container type of the built-in table, with attrs, over contents
\* that are absent, empty, pruned to null, or kept
ContainerNodes(content) ==
    {Node(type, AttrsOf(type), content, <<>>) :
        type \in {"paragraph", "blockquote", "ordered_list", "bullet_list",
                  "list_item", "heading", "code_block"}}

ContainerDocs ==
    {Doc(<<n>>) : n \in
        UNION {ContainerNodes(c) :
                 c \in {Undefined, Arr(<<>>),
                        Arr(<<Node("video", <<>>, Undefined, <<>>)>>),
                        Arr(<<TextNode("hi", <<>>)>>)}
                       \cup {Arr(<<m>>) : m \in ContainerNodes(Arr(<<>>))}}}

\* node types Object.prototype answers to, and nodes without attrs
OddNodes ==
    {Node(type, <<>>, c, <<>>) :
        type \in {"toString", "valueOf", "__proto__", "heading", "code_block",
                  "image", "emoji", "hard_break"},
        c \in {Undefined, Arr(<<>>), Arr(<<TextNode("hi", <<>>)>>)}}

\* a text node with no text: textResolver is given undefined
TextNoText == Obj(<< <<"type", Str("text")>> >>)

OddDocs ==
    {Doc(<<n>>) : n \in OddNodes \cup {TextNoText}}
    \cup {Doc(<<Node("horizontal_rule", <<>>, Undefined, <<>>), n,
                TextNode("hi", <<>>)>>) : n \in OddNodes \cup {TextNoText}}
    \cup {Doc(<<Node("paragraph", <<>>, Arr(<<TextNoText>>), <<>>)>>)}

\* first arguments that are no document
NonDocs ==
    {Null, Undefined, Num(42), Num(0), Arr(<<>>), Arr(<<TextNode("hi", <<>>)>>),
     Obj(<<>>),
     Obj(<< <<"type", Str("paragraph")>>, <<"content", Arr(<<>>)>> >>),
     Obj(<< <<"type", Str("doc")>> >>),
     Obj(<< <<"type", Str("doc")>>, <<"content", Str("hi")>> >>),
     Obj(<< <<"type", Str("doc")>>, <<"content", Null>> >>),
     Obj(<< <<"type", Str("doc")>>, <<"content", Obj(<<>>)>> >>),
     Str("hi"), Str("")}

Documents ==
    TreeDocs \cup MarkDocs \cup LinkDocs \cup BlokDocs \cup ContainerDocs
    \cup OddDocs
    \cup NonDocs

\* second arguments: none; overrides that return elements; the README's
\* blok resolver alone; overrides that return no element
OptionsElements ==
    Obj(<< <<"nodeResolvers",
             Obj(<< <<"paragraph", Fn("user:wrap", "section")>>,
                    <<"video", Fn("user:wrap", "video")>> >>)>>,
           <<"markResolvers",
             Obj(<< <<"bold", Fn("user:wrap", "strong")>>,
                    <<"fancy", Fn("user:wrap", "em")>> >>)>>,
           <<"blokResolvers", Obj(<< <<"x", Fn("user:component", "X")>> >>)>>,
           <<"defaultBlokResolver", Fn("user:name", "")>>,
           <<"textResolver", Fn("user:brackets", "")>>,
           <<"defaultStringResolver", Fn("user:wrap", "p")>> >>)

OptionsBlok ==
    Obj(<< <<"blokResolvers", Obj(<< <<"x", Fn("user:component", "X")>> >>)>> >>)

OptionsNoElements ==
    Obj(<< <<"nodeResolvers",
             Obj(<< <<"paragraph", Fn("user:children", "")>>,
                    <<"heading", Undefined>>,
                    <<"video", Fn("user:string", "v")>> >>)>>,
           <<"markResolvers",
             Obj(<< <<"bold", Fn("user:null", "")>>,
                    <<"fancy", Fn("user:children", "")>> >>)>>,
           <<"blokResolvers",
             Obj(<< <<"x", Fn("user:string", "x")>>,
                    <<"y", Fn("user:null", "")>> >>)>> >>)

OptionsArgs == {Undefined, OptionsElements, OptionsBlok, OptionsNoElements}

(***************************************************************************)
(* The state machine: one call of render on the arguments Init draws.      *)
(***************************************************************************)
Pending == [thrown |-> FALSE, val |-> Undefined]

Init ==
    /\ pc = "called"
    /\ document \in Documents
    /\ options \in OptionsArgs
    /\ result = Pending
    /\ currentKey = 0
    /\ nodeResolvers = Undefined
    /\ markResolvers = Undefined
    /\ builtIns = ModuleTables
    /\ trace = <<>>
    /\ history = <<>>

\* the call runs to its return or to the error it throws
Return(r) ==
    /\ pc' = "done"
    /\ result' = [thrown |-> r.thrown, val |-> r.val]
    /\ currentKey' = r.st.key
    /\ trace' = r.st.trace
    /\ nodeResolvers' = Registries(document, options).nodeResolvers
    /\ markResolvers' = Registries(document, options).markResolvers
    /\ builtIns' = TablesAfter(builtIns, Registries(document, options))
    /\ UNCHANGED <<document, options, history>>

\* lines 29-98: document is { type: 'doc', content: [...] }
RenderDocument ==
    /\ pc = "called"
    /\ document.kind # "null" /\ IsDocShape(document)
    /\ Return(RenderCall(document, options))

\* lines 99-105: document is a string
RenderStringInput ==
    /\ pc = "called"
    /\ document.kind # "null" /\ ~IsDocShape(document)
    /\ TypeOf(document) = "string"
    /\ Return(RenderCall(document, options))

\* line 106, and the error of reading null.type on line 31
RenderOther ==
    /\ pc = "called"
    /\ \/ document.kind = "null"
       \/ /\ document.kind # "null"
          /\ ~IsDocShape(document)
          /\ TypeOf(document) # "string"
    /\ Return(RenderCall(document, options))

Next == RenderDocument \/ RenderStringInput \/ RenderOther

Spec == Init /\ [][Next]_vars

\* the step of Next seen on pc alone: the call that was started returns
Finish == pc = "called" /\ pc' = "done"

\* render is synchronous: nothing suspends a call between its start and its
\* return or throw, so a call that has started is not left waiting forever
FairSpec == Spec /\ WF_pc(Finish)

(***************************************************************************)
(* A session: up to MaxCalls calls of render, one after the other, in one  *)
(* module instance.  A blok resolver of the session calls render itself,   *)
(* on the rich text of its component, while the outer call is in progress. *)
(***************************************************************************)
Bold == Mark("bold", <<>>)

\* the rich text of a component
InnerDocs ==
    {Doc(<<TextNode("in", <<Bold>>)>>),
     Doc(<<Node("paragraph", <<>>, Arr(<<TextNode("in", <<>>)>>), <<>>),
           Node("horizontal_rule", <<>>, Undefined, <<>>)>>)}

ComponentNested(doc) ==
    Obj(<< <<"component", Str("n")>>, <<"_uid", Str("u4")>>, <<"text", doc>> >>)

HorizontalRule == Node("horizontal_rule", <<>>, Undefined, <<>>)

SessionDocs ==
    InnerDocs
    \cup {Doc(<<HorizontalRule, BlokNode(<<ComponentNested(d)>>, <<>>),
                TextNode("hi", <<Bold>>)>>) : d \in InnerDocs}
    \cup {Doc(<<BlokNode(<<ComponentNested(d), ComponentNested(d)>>, <<>>)>>) :
            d \in InnerDocs}
    \cup {Str("hi"), Num(42)}

\* overrides of a built-in node and a built-in mark, and the blok resolver
\* that calls render
OptionsNested ==
    Obj(<< <<"nodeResolvers",
             Obj(<< <<"paragraph", Fn("user:wrap", "section")>> >>)>>,
           <<"markResolvers", Obj(<< <<"bold", Fn("user:wrap", "strong")>> >>)>>,
           <<"blokResolvers", Obj(<< <<"n", Fn("user:render", "")>> >>)>> >>)

SessionOptions == {Undefined, OptionsNested}

SessionInit ==
    /\ pc = "called"
    /\ document \in SessionDocs
    /\ options \in SessionOptions
    /\ result = Pending
    /\ currentKey = 0
    /\ nodeResolvers = Undefined
    /\ markResolvers = Undefined
    /\ builtIns = ModuleTables
    /\ trace = <<>>
    /\ history = <<>>

\* Ghost: the call that has ended, as the history keeps it
Ended ==
    [document |-> document, options |-> options, result |-> result,
     nodeResolvers |-> nodeResolvers, markResolvers |-> markResolvers,
     trace |-> trace]

\* the caller calls render again, after the latest call has ended
CallAgain ==
    /\ pc = "done"
    /\ Len(history) + 1 < MaxCalls
    /\ pc' = "called"
    /\ document' \in SessionDocs
    /\ options' \in SessionOptions
    /\ result' = Pending
    /\ trace' = <<>>
    /\ history' = Append(history, Ended)
    /\ UNCHANGED <<currentKey, nodeResolvers, markResolvers, builtIns>>

SessionNext == RenderDocument \/ RenderStringInput \/ RenderOther \/ CallAgain

SpecSession == SessionInit /\ [][SessionNext]_vars

(***************************************************************************)
(* Reading a finished call: the nodes of the document, the entries of the  *)
(* trace, and the resolver a tag is documented to have (an own key of the  *)
(* overrides, else an own key of the built-in table).                      *)
(***************************************************************************)
Done == pc = "done"

\* the call took the document branch and returned
Rendered == Done /\ ~result.thrown /\ nodeResolvers.kind = "object"

RECURSIVE Descend(_, _)
Descend(node, path) ==
    IF path = <<>> THEN node
    ELSE Descend(Get(node, "content").items[Head(path)], Tail(path))

\* the node of the document at a path
NodeAt(path) == Descend(document, path)

\* the type tag of a node, as a string
TypeTag(node) == ToStr(Get(node, "type"))

NodeEvents == SelectSeq(trace, LAMBDA e : e.ev = "node")

KeyEvents == SelectSeq(trace, LAMBDA e : e.ev = "key")

CallEvents == SelectSeq(trace, LAMBDA e : e.ev = "call")

\* the resolver calls made for the node at a path, in the order made
CallsAt(path) == SelectSeq(trace, LAMBDA e : e.ev = "call" /\ e.path = path)

\* the return of renderNode for the node at a path
ReturnsAt(path) == SelectSeq(trace, LAMBDA e : e.ev = "node" /\ e.path = path)

OwnKeys(o) ==
    IF o.kind = "object" THEN {o.fields[i][1] : i \in 1..Len(o.fields)} ELSE {}

OwnEntry(o, k) == IF k \in OwnKeys(o) THEN FieldOf(o.fields, k) ELSE Undefined

\* options.<name>, or an empty table
Overrides(name) == Option(OptionsOrDefault(options), name, Obj(<<>>))

\* the documented resolver of a tag: the override when the tag is a key of
\* the overrides, else the built-in one, else none
Documented(builtIn, overrides, tag) ==
    IF tag \in OwnKeys(overrides) THEN OwnEntry(overrides, tag)
    ELSE OwnEntry(builtIn, tag)

DocumentedMark(tag) ==
    Documented(defaultMarkResolvers, Overrides("markResolvers"), tag)

DocumentedNode(tag) ==
    Documented(defaultNodeResolvers, Overrides("nodeResolvers"), tag)

\* v is the value out, or out stamped with a key by addKey
Stamped(out, v) ==
    \/ v = out
    \/ /\ out.kind = "element" /\ v.kind = "element"
       /\ [v EXCEPT !.key = out.key] = out

MarkItems(node) == MarksOf(node).items

(***************************************************************************)
(* C1: for a text node with marks [m1, ..., mn] whose types all have a     *)
(* mark resolver, the calls made for the node are textResolver(node.text)  *)
(* and then the resolvers of mn, ..., m1 in that order; resolver(mn) gets  *)
(* the text and mn.attrs, each resolver(mi) gets the (stamped) output of   *)
(* resolver(m(i+1)) as children and mi.attrs, and the node's output is the *)
(* (stamped) output of resolver(m1).                                       *)
(***************************************************************************)
AllMarksResolved(node) ==
    \A i \in 1..Len(MarkItems(node)) :
        Truthy(DocumentedMark(TypeTag(MarkItems(node)[i])))

MarksAppliedLastToFirst(path, out) ==
    LET node == NodeAt(path)
        marks == MarkItems(node)
        n == Len(marks)
        calls == CallsAt(path)
    IN /\ Len(calls) = n + 1
       /\ calls[1].role = "text"
       /\ calls[1].args = <<Get(node, "text")>>
       /\ \A j \in 1..n :
            LET i == n + 1 - j
                c == calls[j + 1]
            IN /\ c.role = "mark"
               /\ c.idx = i
               /\ c.fn = DocumentedMark(TypeTag(marks[i]))
               /\ Stamped(calls[j].out, c.args[1])
               /\ c.args[2] = Get(marks[i], "attrs")
       /\ Stamped(calls[n + 1].out, out)

C1_MarkOrder ==
    Rendered =>
        \A k \in 1..Len(NodeEvents) :
            LET e == NodeEvents[k]
            IN (TypeTag(NodeAt(e.path)) = "text" /\ AllMarksResolved(NodeAt(e.path)))
                   => MarksAppliedLastToFirst(e.path, e.out)

\* a text node with marks [bold, link]: <b key=1><a key=0 href=mailto:>hi</a></b>
C1_Witness ==
    /\ Rendered
    /\ document = Doc(<<TextNode("hi", <<Mark("bold", <<>>),
                                  Mark("link", << <<"linktype", Str("email")>>,
                                                  <<"href", Str("a@b.com")>> >>)>>)>>)
    /\ options = Undefined
    /\ result.val.items[1].type = "b"
    /\ result.val.items[1].key = Str("1")
    /\ Get(Obj(result.val.items[1].props), "children").type = "a"
    /\ Get(Obj(result.val.items[1].props), "children").key = Str("0")

(***************************************************************************)
(* C2: within one render call no two elements stamped by addKey receive    *)
(* the same key, whatever resolver made them and wherever they sit; the    *)
(* keyed elements of the returned tree are pairwise distinct in their key  *)
(* as well.                                                                *)
(***************************************************************************)
RECURSIVE KeysIn(_)
RECURSIVE KeysInAll(_)

\* the keys of the keyed elements of a rendered value, outermost first
KeysIn(v) ==
    CASE v.kind = "array" -> KeysInAll(v.items)
      [] v.kind = "element" ->
            (IF v.key = Null THEN <<>> ELSE <<v.key>>)
            \o KeysInAll([i \in 1..Len(v.props) |-> v.props[i][2]])
      [] OTHER -> <<>>

KeysInAll(items) ==
    IF items = <<>> THEN <<>> ELSE KeysIn(Head(items)) \o KeysInAll(Tail(items))

Distinct(q) == \A i, j \in 1..Len(q) : i # j => q[i] # q[j]

StampedKeys == [i \in 1..Len(KeyEvents) |-> KeyEvents[i].out.key]

C2_KeysDistinct ==
    Done => /\ Distinct(StampedKeys)
            /\ ~result.thrown => Distinct(KeysIn(result.val))

\* <p key=2>[[<X key=0/>], <b key=1>hi</b>]</p>: a blok, a mark and a node
\* resolver, two sibling groups, two levels
C2_Witness ==
    /\ Rendered
    /\ options = OptionsBlok
    /\ Len(document.fields[2][2].items) = 1
    /\ TypeTag(NodeAt(<<1>>)) = "paragraph"
    /\ Len(StampedKeys) = 3
    /\ KeysIn(result.val) = <<Str("2"), Str("0"), Str("1")>>
    /\ {e.role : e \in {CallEvents[i] : i \in 1..Len(CallEvents)}}
         = {"blok", "text", "mark", "node"}

(***************************************************************************)
(* C3 as claimed: under the default resolvers every container node         *)
(* (paragraph, blockquote, ordered_list, bullet_list, list_item, heading,  *)
(* code_block) whose content is absent, empty, or made only of children    *)
(* that render to null, renders to null.                                   *)
(***************************************************************************)
SimpleContainerTags ==
    {"paragraph", "blockquote", "ordered_list", "bullet_list", "list_item"}

ContainerTags == SimpleContainerTags \cup {"heading", "code_block"}

DefaultResolvers ==
    /\ OwnKeys(Overrides("nodeResolvers")) = {}
    /\ OwnKeys(Overrides("markResolvers")) = {}

\* the content of the node at path is absent, or every child rendered to
\* null or undefined
ContentPrunes(path) ==
    LET c == Get(NodeAt(path), "content")
    IN \/ c.kind = "undefined"
       \/ /\ c.kind = "array"
          /\ \A i \in 1..Len(c.items) :
               /\ Len(ReturnsAt(Append(path, i))) = 1
               /\ IsNullish(ReturnsAt(Append(path, i))[1].out)

C3_Original ==
    (Rendered /\ DefaultResolvers) =>
        \A k \in 1..Len(NodeEvents) :
            LET e == NodeEvents[k]
            IN (TypeTag(NodeAt(e.path)) \in ContainerTags /\ ContentPrunes(e.path))
                   => e.out = Null

(***************************************************************************)
(* C3 amended: under the default resolvers a paragraph, blockquote,        *)
(* ordered_list, bullet_list or list_item node that carries no marks and   *)
(* whose content is absent, empty, or made only of children that render to *)
(* null, renders to null; a heading or code_block node with such content   *)
(* and no marks renders to an element (h<level>, pre) whose children are   *)
(* null.  A doc whose only node is such a simple container renders to null.*)
(***************************************************************************)
ChildrenProp(element) == Get(Obj(element.props), "children")

C3_EmptyContainers ==
    (Rendered /\ DefaultResolvers) =>
        /\ \A k \in 1..Len(NodeEvents) :
             LET e == NodeEvents[k]
                 node == NodeAt(e.path)
             IN (ContentPrunes(e.path) /\ MarkItems(node) = <<>>) =>
                  /\ TypeTag(node) \in SimpleContainerTags => e.out = Null
                  /\ TypeTag(node) = "heading" =>
                       /\ e.out.kind = "element"
                       /\ e.out.type = "h" \o ToStr(Get(Get(node, "attrs"), "level"))
                       /\ ChildrenProp(e.out) = Null
                  /\ TypeTag(node) = "code_block" =>
                       /\ e.out.kind = "element"
                       /\ e.out.type = "pre"
                       /\ ChildrenProp(ChildrenProp(e.out)) = Null
        /\ ( /\ Len(Get(document, "content").items) = 1
             /\ TypeTag(NodeAt(<<1>>)) \in SimpleContainerTags
             /\ MarkItems(NodeAt(<<1>>)) = <<>>
             /\ ContentPrunes(<<1>>) ) => result.val = Null

\* a blockquote whose only child is a paragraph with content []: both null
C3_Witness ==
    /\ Rendered
    /\ options = Undefined
    /\ document = Doc(<<Node("blockquote", <<>>,
                            Arr(<<Node("paragraph", <<>>, Arr(<<>>), <<>>)>>), <<>>)>>)
    /\ Len(NodeEvents) = 2
    /\ NodeEvents[1].out = Null /\ NodeEvents[2].out = Null
    /\ result.val = Null

(***************************************************************************)
(* C4 as claimed: the sequence rendered for the parent of a blok node is   *)
(* flat; a doc whose content is one blok node with a body of N records     *)
(* renders to the sequence of the N outputs (to null when there is none).  *)
(***************************************************************************)
IsBlok(node) == Get(node, "type") = Str("blok")

OnlyBlok ==
    /\ Len(Get(document, "content").items) = 1
    /\ IsBlok(NodeAt(<<1>>))

\* the outputs of the resolvers of the blok at path, stamped, in body order
BlokOutputs(path) == ReturnsAt(path)[1].out.items

C4_Original ==
    (Rendered /\ OnlyBlok) =>
        result.val = IF FilterNotNull(BlokOutputs(<<1>>)) = <<>> THEN Null
                     ELSE Arr(FilterNotNull(BlokOutputs(<<1>>)))

(***************************************************************************)
(* C4 amended: a blok node whose attrs.body lists N records renders to one *)
(* nested sequence of exactly N outputs, in body order (null outputs       *)
(* included), and that nested sequence is exactly one entry at the node's  *)
(* position in the sequence of its parent: the parent sequence is not      *)
(* flattened.  A doc whose content is one blok node with body [x, y]       *)
(* renders to the one-element sequence [[output of x, output of y]], and   *)
(* with body [] to [[]].                                                   *)
(***************************************************************************)
BodyOf(node) == Get(Get(node, "attrs"), "body").items

\* the outputs renderNode returned for the nodes of the top-level content
TopLevelOutputs ==
    [i \in 1..Len(Get(document, "content").items) |-> ReturnsAt(<<i>>)[1].out]

C4_BlokNested ==
    Rendered =>
        /\ \A k \in 1..Len(NodeEvents) :
             LET e == NodeEvents[k]
                 calls == CallsAt(e.path)
             IN IsBlok(NodeAt(e.path)) =>
                  /\ e.out.kind = "array"
                  /\ Len(e.out.items) = Len(BodyOf(NodeAt(e.path)))
                  /\ Len(calls) = Len(BodyOf(NodeAt(e.path)))
                  /\ \A j \in 1..Len(calls) :
                       calls[j].idx = j /\ Stamped(calls[j].out, e.out.items[j])
        /\ result.val = IF FilterNotNull(TopLevelOutputs) = <<>> THEN Null
                        ELSE Arr(FilterNotNull(TopLevelOutputs))
        /\ OnlyBlok => result.val = Arr(<<Arr(BlokOutputs(<<1>>))>>)

\* [<hr key=0/>, [<X key=1/>, <div key=2>y</div>], <strong key=3>[hi]</strong>]
C4_Witness ==
    /\ Rendered
    /\ options = OptionsElements
    /\ Len(Get(document, "content").items) = 3
    /\ IsBlok(NodeAt(<<2>>))
    /\ BodyOf(NodeAt(<<2>>)) = <<ComponentX, ComponentY>>
    /\ Len(result.val.items) = 3
    /\ result.val.items[2].kind = "array"
    /\ Len(result.val.items[2].items) = 2
    /\ result.val.items[2].items[1].type = "X"
    /\ result.val.items[2].items[2].type = "div"

(***************************************************************************)
(* C5 as claimed: a node whose type tag is neither a built-in node tag,    *)
(* nor a key of options.nodeResolvers, nor 'text' or 'blok', renders to    *)
(* null and is absent from the sequence rendered for its parent, and no    *)
(* error is raised: a document made only of such nodes renders to null.    *)
(***************************************************************************)
UnknownNodeTag(tag) ==
    tag \notin OwnKeys(defaultNodeResolvers)
               \cup OwnKeys(Overrides("nodeResolvers")) \cup {"text", "blok"}

IsDocument(d) ==
    /\ d.kind = "object"
    /\ OwnEntry(d, "type") = Str("doc")
    /\ OwnEntry(d, "content").kind = "array"

TopLevel == Get(document, "content").items

C5_UnknownNodeAbsent ==
    (Done /\ IsDocument(document)) =>
        /\ \A k \in 1..Len(NodeEvents) :
             UnknownNodeTag(TypeTag(NodeAt(NodeEvents[k].path)))
                 => NodeEvents[k].out = Null
        /\ (\A i \in 1..Len(TopLevel) : UnknownNodeTag(TypeTag(TopLevel[i])))
               => result = [thrown |-> FALSE, val |-> Null]

(***************************************************************************)
(* C6 as claimed: for a mark whose type tag is neither a built-in mark tag *)
(* nor a key of options.markResolvers the fold step is a no-op: no         *)
(* resolver is called for it and no key is consumed; a text node whose     *)
(* marks are all of this kind renders to its text.                         *)
(***************************************************************************)
UnknownMarkTag(tag) ==
    tag \notin OwnKeys(defaultMarkResolvers) \cup OwnKeys(Overrides("markResolvers"))

C6_UnknownMarkSkipped ==
    Rendered =>
        \A k \in 1..Len(NodeEvents) :
            LET e == NodeEvents[k]
                node == NodeAt(e.path)
                calls == CallsAt(e.path)
            IN ~IsBlok(node) =>
                 /\ \A i \in 1..Len(MarkItems(node)) :
                      UnknownMarkTag(TypeTag(MarkItems(node)[i])) =>
                        ~\E j \in 1..Len(calls) :
                            calls[j].role = "mark" /\ calls[j].idx = i
                 /\ ( /\ TypeTag(node) = "text"
                      /\ \A i \in 1..Len(MarkItems(node)) :
                           UnknownMarkTag(TypeTag(MarkItems(node)[i])) )
                        => e.out = calls[1].out

(***************************************************************************)
(* C7: the effective resolver of a tag T that is a key of                  *)
(* options.nodeResolvers (options.markResolvers) is exactly the supplied   *)
(* entry; a built-in tag that is no key of the overrides keeps its         *)
(* built-in resolver; a tag unknown to the built-ins is added; and the     *)
(* only node (mark) resolver called for a node (mark) of tag T is that     *)
(* effective one, once.                                                    *)
(***************************************************************************)
MergedAsDocumented(registry, builtIn, overrides) ==
    /\ OwnKeys(registry) = OwnKeys(builtIn) \cup OwnKeys(overrides)
    /\ \A tag \in OwnKeys(registry) :
         OwnEntry(registry, tag) = Documented(builtIn, overrides, tag)

C7_OverridesReplace ==
    Rendered =>
        /\ MergedAsDocumented(nodeResolvers, defaultNodeResolvers,
                              Overrides("nodeResolvers"))
        /\ MergedAsDocumented(markResolvers, defaultMarkResolvers,
                              Overrides("markResolvers"))
        /\ \A k \in 1..Len(CallEvents) :
             LET c == CallEvents[k]
             IN /\ (c.role = "node" /\ ~UnknownNodeTag(TypeTag(NodeAt(c.path)))) =>
                     /\ c.fn = DocumentedNode(TypeTag(NodeAt(c.path)))
                     /\ Len(SelectSeq(CallsAt(c.path),
                                      LAMBDA x : x.role = "node")) = 1
                /\ (c.role = "mark"
                      /\ ~UnknownMarkTag(TypeTag(MarkItems(NodeAt(c.path))[c.idx]))) =>
                     /\ c.fn = DocumentedMark(TypeTag(MarkItems(NodeAt(c.path))[c.idx]))
                     /\ Len(SelectSeq(CallsAt(c.path),
                                      LAMBDA x : x.role = "mark" /\ x.idx = c.idx)) = 1

\* paragraph overridden (section), heading built-in (h2), video added
C7_Witness ==
    /\ Rendered
    /\ options = OptionsElements
    /\ document = Doc(<<Node("paragraph", <<>>, Undefined, <<>>),
                        Node("heading", AttrsOf("heading"), Arr(<<>>), <<>>),
                        Node("video", <<>>, Arr(<<>>), <<>>)>>)
    /\ Len(result.val.items) = 3
    /\ result.val.items[1].type = "section"
    /\ result.val.items[2].type = "h2"
    /\ result.val.items[3].type = "video"
    /\ OwnEntry(nodeResolvers, "paragraph") = Fn("user:wrap", "section")
    /\ OwnEntry(nodeResolvers, "blockquote") = Fn("simpleNodeResolver", "blockquote")

(***************************************************************************)
(* C8 as claimed: for every first argument that is neither an object with  *)
(* type === 'doc' and an array-valued content nor a string, render returns *)
(* null and raises no error.                                               *)
(***************************************************************************)
C8_OtherInputNull ==
    (Done /\ ~IsDocument(document) /\ document.kind # "string") =>
        result = [thrown |-> FALSE, val |-> Null]

(***************************************************************************)
(* C9 as claimed: with no defaultBlokResolver supplied, a blok node whose  *)
(* components all have no entry in options.blokResolvers contributes no    *)
(* entry to the value render returns: the result is the sequence of the    *)
(* other top-level outputs, and null when there are no others.             *)
(***************************************************************************)
NoDefaultBlokResolver ==
    Get(OptionsOrDefault(options), "defaultBlokResolver").kind = "undefined"

\* blokResolvers[component]
BlokEntry(record) ==
    Get(Overrides("blokResolvers"), ToStr(Get(record, "component")))

\* a blok node with a body of components none of which has a resolver
UnresolvedBlok(node) ==
    /\ IsBlok(node)
    /\ Get(node, "attrs").kind = "object"
    /\ Get(Get(node, "attrs"), "body").kind = "array"
    /\ BodyOf(node) # <<>>
    /\ \A j \in 1..Len(BodyOf(node)) : ~Truthy(BlokEntry(BodyOf(node)[j]))

OutputsOfOthers ==
    FilterNotNull(
        [i \in 1..Len(TopLevel) |->
            IF UnresolvedBlok(TopLevel[i]) THEN Null ELSE ReturnsAt(<<i>>)[1].out])

NullsFor(node) == Arr([j \in 1..Len(BodyOf(node)) |-> Null])

PropsOf(record) ==
    Obj(SelectSeq(record.fields, LAMBDA f : f[1] # "component"))

DefaultBlokResolverOption ==
    IF NoDefaultBlokResolver THEN Fn("() => null", "")
    ELSE Get(OptionsOrDefault(options), "defaultBlokResolver")

Identity == Fn("str => str", "")

\* options.<name>, or the identity when it is not supplied
Supplied(name) ==
    IF Get(OptionsOrDefault(options), name).kind = "undefined" THEN Identity
    ELSE Get(OptionsOrDefault(options), name)

RegistryRoles == {"node", "mark", "blok", "defaultBlok"}

StringInput == Done /\ document.kind = "string"

C11_StringResolverOnInput ==
    StringInput =>
        /\ ~result.thrown
        /\ result.val = Apply(Supplied("defaultStringResolver"),
                              <<document>>, NewState).val
        /\ \A k \in 1..Len(CallEvents) : CallEvents[k].role \notin RegistryRoles
        /\ options = Undefined => result.val = document

(***************************************************************************)
(* C11 amended: when the first argument of render is a string, textResolver*)
(* is called once with that input and defaultStringResolver once with what *)
(* textResolver returned; the result is what defaultStringResolver         *)
(* returned, with no key stamped on it; no node, mark or blok resolver is  *)
(* called; when neither resolver is supplied the string is returned as it  *)
(* is.                                                                     *)
(***************************************************************************)
C11_StringThroughTextResolver ==
    StringInput =>
        /\ ~result.thrown
        /\ Len(CallEvents) = 2
        /\ CallEvents[1].role = "text"
        /\ CallEvents[1].fn = Supplied("textResolver")
        /\ CallEvents[1].args = <<document>>
        /\ CallEvents[2].role = "string"
        /\ CallEvents[2].fn = Supplied("defaultStringResolver")
        /\ CallEvents[2].args = <<CallEvents[1].out>>
        /\ result.val = CallEvents[2].out
        /\ KeyEvents = <<>> /\ currentKey = 0
        /\ ( Supplied("textResolver") = Identity
             /\ Supplied("defaultStringResolver") = Identity )
               => result.val = document

\* render('hi', { textResolver: s => '[' + s + ']',
\*                defaultStringResolver: s => <p>{s}</p> }) is <p>[hi]</p>
C11_Witness ==
    /\ StringInput
    /\ document = Str("hi")
    /\ options = OptionsElements
    /\ result.val = CreateElement("p", Null, Children(Str("[hi]")))
    /\ result.val.key = Null

(***************************************************************************)
(* C12: the built-in link mark resolver returns an 'a' element around the  *)
(* children it is given; when attrs is a record its href is 'mailto:'      *)
(* followed by attrs.href if attrs.linktype is 'email' and attrs.href      *)
(* unchanged for every other linktype, and its target is attrs.target      *)
(* unchanged; when the mark has no attrs the element has no attribute at   *)
(* all; rendering a link mark never raises an error.                       *)
(***************************************************************************)
IsLinkCall(c) == c.role = "mark" /\ c.fn = Fn("linkMarkResolver", "")

\* the value of a prop of an element; Absent when it has no such prop
Absent == [kind |-> "absent"]

PropOf(element, name) ==
    IF HasField(element.props, name) THEN FieldOf(element.props, name)
    ELSE Absent

C12_LinkMark ==
    Done =>
        /\ document \in LinkDocs => ~result.thrown
        /\ \A k \in 1..Len(CallEvents) :
             LET c == CallEvents[k]
                 attrs == c.args[2]
             IN IsLinkCall(c) =>
                  /\ ~c.thrown
                  /\ c.out.kind = "element" /\ c.out.type = "a"
                  /\ PropOf(c.out, "children") = c.args[1]
                  /\ attrs.kind \in {"undefined", "null"} =>
                       c.out.props = << <<"children", c.args[1]>> >>
                  /\ attrs.kind = "object" =>
                       /\ PropOf(c.out, "target") = Get(attrs, "target")
                       /\ OwnEntry(attrs, "linktype") = Str("email") =>
                            PropOf(c.out, "href")
                                = Str("mailto:" \o ToStr(OwnEntry(attrs, "href")))
                       /\ OwnEntry(attrs, "linktype") # Str("email") =>
                            PropOf(c.out, "href") = OwnEntry(attrs, "href")

\* <a href="mailto:a@b.com" target="_blank" key=0>hi</a>
C12_Witness ==
    /\ Rendered
    /\ options = Undefined
    /\ document = Doc(<<TextNode("hi", <<LinkMark(
           Obj(<< <<"linktype", Str("email")>>, <<"href", Str("a@b.com")>>,
                  <<"target", Str("_blank")>> >>))>>)>>)
    /\ Len(result.val.items) = 1
    /\ result.val.items[1].type = "a"
    /\ PropOf(result.val.items[1], "href") = Str("mailto:a@b.com")
    /\ PropOf(result.val.items[1], "target") = Str("_blank")
    /\ PropOf(result.val.items[1], "children") = Str("hi")

(***************************************************************************)
(* C13 as claimed: with the built-in resolvers alone (no options), render  *)
(* completes without error on every document, whatever type tags its nodes *)
(* and marks carry and whether or not their attrs are there.               *)
(***************************************************************************)
C13_BuiltInsNeverThrow ==
    (Done /\ IsDocument(document) /\ options = Undefined) => ~result.thrown

(***************************************************************************)
(* Reading a session: the calls that have ended, in the order made, and    *)
(* the keys a call stamped, in the order stamped.                          *)
(***************************************************************************)
EndedCalls == IF Done THEN Append(history, Ended) ELSE history

KeysStamped(tr) ==
    LET stamps == SelectSeq(tr, LAMBDA e : e.ev = "key")
    IN [i \in 1..Len(stamps) |-> stamps[i].out.key]

\* "0", "1", ..., "k-1"
CountingFromZero(keys) == \A i \in 1..Len(keys) : keys[i] = Str(ToString(i - 1))

(***************************************************************************)
(* C14: in a session, two calls of render with the same document and the   *)
(* same options return the same value (or raise the same error), build the *)
(* same registries, call the same resolvers and stamp the same keys,       *)
(* whatever calls were made before each of them; the keys of every call    *)
(* count from 0.                                                           *)
(***************************************************************************)
C14_Deterministic ==
    /\ \A i, j \in 1..Len(EndedCalls) :
         ( /\ EndedCalls[i].document = EndedCalls[j].document
           /\ EndedCalls[i].options = EndedCalls[j].options )
             => EndedCalls[i] = EndedCalls[j]
    /\ \A i \in 1..Len(EndedCalls) :
         CountingFromZero(KeysStamped(EndedCalls[i].trace))

\* the third call repeats the first, after a call with overrides that
\* stamped keys of its own
C14_Witness ==
    /\ Done
    /\ Len(history) = 2
    /\ history[1].document = document /\ history[1].options = options
    /\ options = Undefined
    /\ history[2].options = OptionsNested
    /\ Len(KeysStamped(history[2].trace)) >= 2
    /\ document \in InnerDocs
    /\ KeysStamped(trace) # <<>>
    /\ history[1].result = result

(***************************************************************************)
(* C15: no step of a session changes the module's tables                   *)
(* (defaultNodeResolvers, defaultMarkResolvers); a call of render leaves   *)
(* its document and its options (override tables included) as they were    *)
(* when it was called; and a call made without options, after whatever     *)
(* calls with overrides, uses exactly the built-in tables.                 *)
(***************************************************************************)
C15_NothingMutated ==
    [][ /\ builtIns' = builtIns
        /\ builtIns' = ModuleTables
        /\ pc = "called" => (document' = document /\ options' = options)
        /\ (pc' = "done" /\ options' = Undefined /\ nodeResolvers'.kind = "object")
             => /\ nodeResolvers' = defaultNodeResolvers
                /\ markResolvers' = defaultMarkResolvers ]_vars

\* a call without options after a call of the same document that overrode
\* the bold mark: <b> again, not <strong>
C15_Witness ==
    /\ Rendered
    /\ options = Undefined
    /\ document = Doc(<<TextNode("in", <<Bold>>)>>)
    /\ Len(history) >= 1
    /\ history[Len(history)].document = document
    /\ history[Len(history)].options = OptionsNested
    /\ history[Len(history)].result.val.items[1].type = "strong"
    /\ result.val.items[1].type = "b"
    /\ builtIns = ModuleTables

(***************************************************************************)
(* C16: when a resolver of a call of render calls render itself, the two   *)
(* invocations share neither the key counter nor the registries: the keys  *)
(* of the outer invocation count from 0 without a gap, the keys of the     *)
(* inner invocation count from 0, and the inner invocation returns, calls  *)
(* and stamps what a call of its own with the same arguments does.         *)
(***************************************************************************)
RenderEvents(tr) == SelectSeq(tr, LAMBDA e : e.ev = "render")

SameAsAlone(inner, alone) ==
    (alone.document = inner.document /\ alone.options = inner.options)
        => (alone.result = inner.result /\ alone.trace = inner.trace)

C16_InvocationsApart ==
    \A i \in 1..Len(EndedCalls) :
        /\ CountingFromZero(KeysStamped(EndedCalls[i].trace))
        /\ \A k \in 1..Len(RenderEvents(EndedCalls[i].trace)) :
             LET inner == RenderEvents(EndedCalls[i].trace)[k]
             IN /\ CountingFromZero(KeysStamped(inner.trace))
                /\ \A j \in 1..Len(EndedCalls) : SameAsAlone(inner, EndedCalls[j])

\* [<hr key=0/>, [<aside key=1>[<p key=0>in</p>, <hr key=1/>]</aside>],
\*  <strong key=2>hi</strong>], after the inner document was rendered alone
C16_Witness ==
    /\ Rendered
    /\ options = OptionsNested
    /\ Len(history) >= 1
    /\ history[1].options = Undefined
    /\ document = Doc(<<HorizontalRule,
                        BlokNode(<<ComponentNested(history[1].document)>>, <<>>),
                        TextNode("hi", <<Bold>>)>>)
    /\ Len(RenderEvents(trace)) = 1
    /\ RenderEvents(trace)[1].result = history[1].result
    /\ KeysStamped(RenderEvents(trace)[1].trace) = <<Str("0"), Str("1")>>
    /\ KeysStamped(trace) = <<Str("0"), Str("1"), Str("2")>>
    /\ result.val.items[2].items[1].type = "aside"
    /\ PropOf(result.val.items[2].items[1], "children") = history[1].result.val

(***************************************************************************)
(* C17: renderNodes, on document.content and on the content of every node  *)
(* a node resolver is called for, returns null when its input is absent or *)
(* when every node of the input renders to null or undefined; otherwise it *)
(* returns the outputs of the nodes that are neither, in input order, a    *)
(* sequence that is not empty; it never returns an empty sequence, and     *)
(* render of a doc with content [] is null.                                *)
(***************************************************************************)
\* what renderNode returned for the nodes of the content at a path
OutputsUnder(content, path) ==
    [i \in 1..Len(content.items) |-> ReturnsAt(Append(path, i))[1].out]

NeitherNullNorUndefined(outs) ==
    SelectSeq(outs, LAMBDA v : v.kind \notin {"null", "undefined"})

\* returned is what renderNodes returned for the content at a path
RenderNodesReturned(content, path, returned) ==
    /\ returned # Arr(<<>>)
    /\ content.kind \in {"null", "undefined"} => returned = Null
    /\ content.kind = "array" =>
         IF \A i \in 1..Len(content.items) :
                OutputsUnder(content, path)[i].kind \in {"null", "undefined"}
         THEN returned = Null
         ELSE /\ returned.kind = "array"
              /\ returned.items # <<>>
              /\ returned.items = NeitherNullNorUndefined(OutputsUnder(content, path))
              /\ \A k \in 1..Len(returned.items) :
                   returned.items[k].kind \notin {"null", "undefined"}

C17_RenderNodes ==
    (Done /\ IsDocument(document)) =>
        /\ ~result.thrown =>
             RenderNodesReturned(Get(document, "content"), <<>>, result.val)
        /\ (~result.thrown /\ Get(document, "content") = Arr(<<>>))
             => result.val = Null
        /\ \A k \in 1..Len(CallEvents) :
             CallEvents[k].role = "node" =>
                RenderNodesReturned(Get(NodeAt(CallEvents[k].path), "content"),
                                    CallEvents[k].path, CallEvents[k].args[1])

\* three nodes, the first renders to null, the other two are returned
C17_Witness ==
    /\ Rendered
    /\ options = Undefined
    /\ Len(TopLevel) = 3
    /\ ReturnsAt(<<1>>)[1].out = Null
    /\ result.val.kind = "array"
    /\ result.val.items = <<ReturnsAt(<<2>>)[1].out, ReturnsAt(<<3>>)[1].out>>
    /\ result.val.items[1] # result.val.items[2]

(***************************************************************************)
(* C18: in one call of render on a document that stamps k elements, the    *)
(* keys are 0..k-1 in the order stamped; a key is stamped exactly when a   *)
(* node, mark or blok resolver has returned a valid element, right after   *)
(* that return, and the counter stays put for every other result; the key  *)
(* of a stamped element is greater than every key among its descendants;   *)
(* and in every sequence of the result the keys of the stamped elements    *)
(* increase strictly in document order.                                    *)
(***************************************************************************)
StampingRoles == {"node", "mark", "blok", "defaultBlok"}

\* the number a key spells
KeyNumber(key) == CHOOSE n \in 0..Len(trace) : Str(ToString(n)) = key

\* the number of keys stamped before entry t of the trace
StampsBefore(t) ==
    Cardinality({u \in 1..(t - 1) : trace[u].ev = "key"})

ReturnedElement(e) ==
    e.ev = "call" /\ e.role \in StampingRoles /\ ~e.thrown /\ e.out.kind = "element"

StampedAfterReturn ==
    \A t \in 1..Len(trace) :
        /\ ReturnedElement(trace[t]) =>
             /\ t < Len(trace)
             /\ trace[t + 1].ev = "key"
             /\ trace[t + 1].out.key = Str(ToString(StampsBefore(t)))
             /\ Stamped(trace[t + 1].out, trace[t].out)
        /\ trace[t].ev = "key" => (t > 1 /\ ReturnedElement(trace[t - 1]))

RECURSIVE SubValues(_)
\* a value and the values inside it: the items of an array, the props of
\* an element
SubValues(v) ==
    {v} \cup
    CASE v.kind = "array" ->
            UNION {SubValues(v.items[i]) : i \in 1..Len(v.items)}
      [] v.kind = "element" ->
            UNION {SubValues(v.props[i][2]) : i \in 1..Len(v.props)}
      [] OTHER -> {}

IsStamped(v) == v.kind = "element" /\ v.key # Null

DescendantsBelow(element) ==
    \A d \in SubValues(element) \ {element} :
        IsStamped(d) => KeyNumber(d.key) < KeyNumber(element.key)

SiblingsIncrease(seq) ==
    \A i, j \in 1..Len(seq) :
        (i < j /\ IsStamped(seq[i]) /\ IsStamped(seq[j]))
            => KeyNumber(seq[i].key) < KeyNumber(seq[j].key)

C18_KeysPostOrder ==
    (Done /\ IsDocument(document)) =>
        /\ CountingFromZero(StampedKeys)
        /\ currentKey = Len(StampedKeys)
        /\ StampedAfterReturn
        /\ ~result.thrown =>
             \A v \in SubValues(result.val) :
                 /\ IsStamped(v) => DescendantsBelow(v)
                 /\ v.kind = "array" => SiblingsIncrease(v.items)

\* <section key=3>[[<X key=0/>, <div key=1>y</div>], <strong key=2>[hi]</strong>]
\* </section>: children before their parent, siblings in document order, and
\* the string textResolver returned without a key
C18_Witness ==
    /\ Rendered
    /\ options = OptionsElements
    /\ Len(StampedKeys) = 4
    /\ KeysIn(result.val) = <<Str("3"), Str("0"), Str("1"), Str("2")>>
    /\ \E t \in 1..Len(trace) :
         trace[t].ev = "call" /\ trace[t].role = "text"
             /\ trace[t].out.kind = "string"

(***************************************************************************)
(* C19: the marks of every node that is not a blok are applied, whatever   *)
(* its type: the resolvers of the marks that have one are called from the  *)
(* last mark to the first, the innermost on what the node itself rendered  *)
(* to (the text, the keyed output of the node resolver, or null for a type *)
(* without resolver), each next one on the keyed output of the one before, *)
(* and the node renders to the keyed output of the outermost.  For a type  *)
(* without resolver and a built-in resolver as the outermost mark the      *)
(* output is an element, kept in the sequence of the parent.  For a blok   *)
(* node no mark resolver is called.                                        *)
(***************************************************************************)
\* the resolver the call found for a tag: registry[tag]
FoundNode(tag) == Get(nodeResolvers, tag)

FoundMark(tag) == Get(markResolvers, tag)

\* the positions of the marks of a node that have a resolver, last first
ResolvedMarksLastFirst(node) ==
    LET n == Len(MarkItems(node))
        fromLast == [j \in 1..n |-> n + 1 - j]
    IN SelectSeq(fromLast,
                 LAMBDA i : Truthy(FoundMark(TypeTag(MarkItems(node)[i]))))

MarkCallsAt(path) == SelectSeq(CallsAt(path), LAMBDA c : c.role = "mark")

\* what renderNode had for the node at path before its marks: v is that
\* value, possibly with a key
IsChildNode(path, v) ==
    LET node == NodeAt(path)
        calls == SelectSeq(CallsAt(path), LAMBDA c : c.role # "mark")
    IN IF TypeTag(node) = "text"
       THEN Len(calls) = 1 /\ calls[1].role = "text" /\ v = calls[1].out
       ELSE IF Truthy(FoundNode(TypeTag(node)))
       THEN Len(calls) = 1 /\ calls[1].role = "node" /\ Stamped(calls[1].out, v)
       ELSE calls = <<>> /\ v = Null

\* the sequence renderNodes returned to the parent of the node at path
ParentSequence(path) ==
    IF Len(path) = 1 THEN result.val
    ELSE SelectSeq(CallsAt(SubSeq(path, 1, Len(path) - 1)),
                   LAMBDA c : c.role = "node")[1].args[1]

MarksWrap(path, out) ==
    LET node == NodeAt(path)
        resolved == ResolvedMarksLastFirst(node)
        calls == MarkCallsAt(path)
    IN /\ Len(calls) = Len(resolved)
       /\ \A j \in 1..Len(calls) :
            /\ calls[j].idx = resolved[j]
            /\ calls[j].fn = FoundMark(TypeTag(MarkItems(node)[resolved[j]]))
            /\ IF j = 1 THEN IsChildNode(path, calls[1].args[1])
               ELSE Stamped(calls[j - 1].out, calls[j].args[1])
       /\ IF calls = <<>> THEN IsChildNode(path, out)
          ELSE Stamped(calls[Len(calls)].out, out)
       /\ ( /\ calls # <<>>
            /\ TypeTag(node) # "text"
            /\ ~Truthy(FoundNode(TypeTag(node)))
            /\ calls[Len(calls)].fn \in
                 {OwnEntry(defaultMarkResolvers, t) : t \in OwnKeys(defaultMarkResolvers)} )
              => /\ calls[1].args[1] = Null
                 /\ out.kind = "element"
                 /\ \E k \in 1..Len(ParentSequence(path).items) :
                      ParentSequence(path).items[k] = out

C19_MarksOnEveryNode ==
    Rendered =>
        \A k \in 1..Len(NodeEvents) :
            IF IsBlok(NodeAt(NodeEvents[k].path))
            THEN /\ MarkCallsAt(NodeEvents[k].path) = <<>>
                 /\ NodeEvents[k].out.kind = "array"
            ELSE MarksWrap(NodeEvents[k].path, NodeEvents[k].out)

\* a linked image in bold: <b key=2><a key=1 href="mailto:a@b.com">
\* <img key=0 src="a.png"/></a></b>
C19_Witness ==
    /\ Rendered
    /\ options = Undefined
    /\ document =
         Doc(<<Node("image", << <<"src", Str("a.png")>> >>, Undefined,
                    <<Bold, Mark("link", << <<"linktype", Str("email")>>,
                                            <<"href", Str("a@b.com")>> >>)>>)>>)
    /\ Len(MarkCallsAt(<<1>>)) = 2
    /\ result.val.items[1].type = "b"
    /\ result.val.items[1].key = Str("2")
    /\ PropOf(result.val.items[1], "children").type = "a"
    /\ PropOf(PropOf(result.val.items[1], "children"), "children").type = "img"
    /\ PropOf(PropOf(result.val.items[1], "children"), "children").key = Str("0")

(***************************************************************************)
(* C20 as claimed: in a call that returns, renderNode is called exactly    *)
(* once for each node reachable from document.content through content      *)
(* arrays, and textResolver exactly once for each text node among them.    *)
(***************************************************************************)
RECURSIVE PathsUnder(_, _)
\* the paths of the nodes below a node, through content arrays
PathsUnder(node, path) ==
    IF Get(node, "content").kind # "array" THEN {}
    ELSE UNION {{Append(path, i)}
                  \cup PathsUnder(Get(node, "content").items[i], Append(path, i)) :
                i \in 1..Len(Get(node, "content").items)}

TextCallsAt(path) == SelectSeq(CallsAt(path), LAMBDA c : c.role = "text")

C20_EveryNodeOnce ==
    Rendered =>
        \A p \in PathsUnder(document, <<>>) :
            /\ Len(ReturnsAt(p)) = 1
            /\ TypeTag(NodeAt(p)) = "text" => Len(TextCallsAt(p)) = 1

(***************************************************************************)
(* C20 amended: a call of render ends; when it returns, renderNode has     *)
(* been called exactly once for each node that is reached, a node being    *)
(* reached when it is in document.content or in the content array of a     *)
(* reached node whose type is neither text nor blok and has a node         *)
(* resolver, and for no other node (the content of a node without resolver *)
(* is never rendered).  The reached nodes return in document order, each   *)
(* after its children, and the children return before the resolver of      *)
(* their parent is called.  For a reached node the node resolver is called *)
(* exactly once if its type has one, textResolver exactly once if it is a  *)
(* text node, and, unless it is a blok, the resolver of each mark          *)
(* occurrence that has one exactly once; no other resolver call is made    *)
(* but one per record of a blok body.                                      *)
(***************************************************************************)
RendersContent(node) ==
    /\ TypeTag(node) \notin {"text", "blok"}
    /\ Truthy(FoundNode(TypeTag(node)))
    /\ Get(node, "content").kind = "array"

RECURSIVE ReachedUnder(_, _)
ReachedUnder(node, path) ==
    UNION {{Append(path, i)}
             \cup (IF RendersContent(Get(node, "content").items[i])
                   THEN ReachedUnder(Get(node, "content").items[i], Append(path, i))
                   ELSE {}) :
           i \in 1..Len(Get(node, "content").items)}

Reached == ReachedUnder(document, <<>>)

IsProperPrefix(p, q) == Len(p) < Len(q) /\ SubSeq(q, 1, Len(p)) = p

\* p comes before q when the tree is walked children first, left to right
PostOrderBefore(p, q) ==
    \/ IsProperPrefix(q, p)
    \/ \E i \in 1..Len(p) :
         /\ i <= Len(q)
         /\ SubSeq(p, 1, i - 1) = SubSeq(q, 1, i - 1)
         /\ p[i] < q[i]

CountCalls(path, role, idx) ==
    Len(SelectSeq(CallsAt(path), LAMBDA c : c.role = role /\ c.idx = idx))

CallsOfNode(path) ==
    LET node == NodeAt(path)
    IN IF IsBlok(node)
       THEN /\ Len(CallsAt(path)) = Len(BodyOf(node))
            /\ \A c \in {CallsAt(path)[j] : j \in 1..Len(CallsAt(path))} :
                 c.role \in {"blok", "defaultBlok"}
       ELSE /\ CountCalls(path, "text", 0)
                 = (IF TypeTag(node) = "text" THEN 1 ELSE 0)
            /\ CountCalls(path, "node", 0)
                 = (IF TypeTag(node) # "text" /\ Truthy(FoundNode(TypeTag(node)))
                    THEN 1 ELSE 0)
            /\ \A i \in 1..Len(MarkItems(node)) :
                 CountCalls(path, "mark", i)
                     = (IF Truthy(FoundMark(TypeTag(MarkItems(node)[i])))
                        THEN 1 ELSE 0)
            /\ Len(CallsAt(path))
                 = CountCalls(path, "text", 0) + CountCalls(path, "node", 0)
                   + Len(MarkCallsAt(path))

SinglePass ==
    Rendered =>
        /\ {NodeEvents[k].path : k \in 1..Len(NodeEvents)} = Reached
        /\ Len(NodeEvents) = Cardinality(Reached)
        /\ {CallEvents[k].path : k \in 1..Len(CallEvents)} \subseteq Reached
        /\ \A p \in Reached : CallsOfNode(p)
        /\ \A k, l \in 1..Len(NodeEvents) :
             k < l => PostOrderBefore(NodeEvents[k].path, NodeEvents[l].path)
        /\ \A t, u \in 1..Len(trace) :
             ( /\ trace[t].ev = "call" /\ trace[t].role = "node"
               /\ trace[u].ev = "node"
               /\ IsProperPrefix(trace[t].path, trace[u].path) ) => u < t

C20_SinglePass == []SinglePass /\ <>Done

\* a paragraph holding an unknown node: the paragraph and the unknown node
\* are rendered once each, the paragraph below the unknown node never is
C20_Witness ==
    /\ Rendered
    /\ options = Undefined
    /\ document = Doc(<<Node("paragraph", <<>>,
                            Arr(<<Node("video", <<>>,
                                       Arr(<<Node("paragraph", <<>>, Undefined, <<>>)>>),
                                       <<>>)>>),
                            <<>>)>>)
    /\ Reached = {<<1>>, <<1, 1>>}
    /\ Len(NodeEvents) = 2
    /\ ReturnsAt(<<1, 1, 1>>) = <<>>
    /\ Len(CallEvents) = 1
    /\ CallEvents[1].role = "node" /\ CallEvents[1].path = <<1>>

====
